---- MODULE Spec2Model ----
(***************************************************************************)
(* risadams/time-since: timeSince(date, options) of src/src/time-since.ts  *)
(* (shipped as dist/time-since.cjs.js and dist/time-since.esm.js).         *)
(*                                                                         *)
(* One call of timeSince is modelled from its arguments to its outcome,    *)
(* next to the host clock, which may advance between the steps of the      *)
(* call.                                                                   *)
(*                                                                         *)
(* Numbers.  A JavaScript millisecond count (Date.prototype.getTime, and   *)
(* diffMilliseconds) does not fit the 32-bit integers of the model checker *)
(* (360 days are 31,104,000,000 ms), so it is written as the record        *)
(* [s |-> q, ms |-> r] that denotes q * 1000 + r with r in 0..999.  Every  *)
(* other number of the function (seconds and coarser) is a plain integer.  *)
(***************************************************************************)
EXTENDS Integers, Sequences, FiniteSets, TLC

VARIABLES
    date,        \* argument `date` of the call
    options,     \* argument `options` of the call
    clock,       \* the host clock (what `new Date()` would read now)
    ticks,       \* how often the clock advanced
    pc,          \* position of the call: "start", "validated", "clockRead", "done"
    startDate,   \* local `startDate` (its getTime())
    now,         \* local `now` (its getTime())
    clockReads,  \* number of `new Date()` clock reads of the call
    rtfLog,      \* what the call asked of Intl.RelativeTimeFormat, in order
    result,      \* outcome of the call: a returned value or a thrown error
    other        \* another call of timeSince, if there is one: the call made
                 \* before this one, or a call running alongside it

vars == <<date, options, clock, ticks, pc, startDate, now, clockReads, rtfLog, result, other>>

----------------------------------------------------------------------------
(* Bounds of the model *)

\* years of distance between reference and observation: 0..MaxYears
MaxYears == 1

\* the clock advances at most MaxTicks times, one millisecond each
MaxTicks == 1

----------------------------------------------------------------------------
(* Program constants *)

MsPerSecond == 1000
SecondsPerMinute == 60
MinutesPerHour == 60
HoursPerDay == 24
DaysPerMonth == 30
MonthsPerYear == 12

\* 2024-04-01T00:00:00Z in seconds since the epoch: the observation instant
\* the test-suite fixes
ObservationBase == 1711929600

----------------------------------------------------------------------------
(* Millisecond counts: [s, ms] denotes s * 1000 + ms *)

Ms(sec, msec) == [s |-> sec, ms |-> msec]

ZeroMs == Ms(0, 0)

\* a > b on millisecond counts
MsGreater(a, b) == a.s > b.s \/ (a.s = b.s /\ a.ms > b.ms)

\* a - b for a >= b, with the borrow
MsMinus(a, b) ==
    IF a.ms >= b.ms
    THEN Ms(a.s - b.s, a.ms - b.ms)
    ELSE Ms(a.s - b.s - 1, a.ms + MsPerSecond - b.ms)

\* a + k milliseconds, with the carry
MsPlus(a, k) ==
    Ms(a.s + ((a.ms + k) \div MsPerSecond), (a.ms + k) % MsPerSecond)

\* Math.abs(a - b)
MsAbsDiff(a, b) == IF MsGreater(b, a) THEN MsMinus(b, a) ELSE MsMinus(a, b)

----------------------------------------------------------------------------
(* Dates: the time value of a Date object, NaN for an invalid Date *)

Time(t) == [nan |-> FALSE, t |-> t]

NaNTime == [nan |-> TRUE, t |-> ZeroMs]

\* mutant: the zone offset of the string ignored
DateParseIgnoringZone(str) == IF ~str.parseable THEN NaNTime ELSE Time(str.wall)

\* mutant: an unparseable string read as the epoch
DateParseLenient(str) ==
    IF ~str.parseable
    THEN Time(ZeroMs)
    ELSE Time(Ms(str.wall.s - str.offset, str.wall.ms))

\* new Date(string): a date-time string with a zone offset denotes the wall
\* time written minus the offset; anything unparseable gives an invalid Date
DateParse(str) ==
    IF ~str.parseable
    THEN NaNTime
    ELSE Time(Ms(str.wall.s - str.offset, str.wall.ms))

\* a string argument naming wall time w at zone offset off (seconds east)
DateString(w, off) == [type |-> "string", parseable |-> TRUE, wall |-> w, offset |-> off, time |-> NaNTime]

\* an unparseable string such as 'not-a-date'
BadString == [type |-> "string", parseable |-> FALSE, wall |-> ZeroMs, offset |-> 0, time |-> NaNTime]

\* a Date object argument with time value tv
DateObject(tv) == [type |-> "Date", parseable |-> FALSE, wall |-> ZeroMs, offset |-> 0, time |-> tv]

\* a number argument (a Unix timestamp in milliseconds) of value tv
DateNumber(tv) == [type |-> "number", parseable |-> FALSE, wall |-> ZeroMs, offset |-> 0, time |-> tv]

\* mutant: startDate in a variable the calls share
StartDateOfShared(d) ==
    IF ~other.startDate.nan
    THEN other.startDate
    ELSE IF d.type = "string" THEN DateParse(d) ELSE d.time

\* const startDate = typeof date === 'string' ? new Date(date) : date
StartDateOf(d) == IF d.type = "string" THEN DateParse(d) ELSE d.time

\* startDate.getTime is a function: of a Date, not of a number
HasGetTime(d) == d.type # "number"

\* mutant: the validity check left out
IsInvalidNever(sd) == FALSE

\* isNaN(startDate.getTime())
IsInvalid(sd) == sd.nan

----------------------------------------------------------------------------
(* Options *)

Undefined == "<undefined>"

SingleUnitFormats == {"milliseconds", "seconds", "minutes", "hours", "days", "months", "years"}

RecognizedFormats == SingleUnitFormats \cup {"relative", "object"}

\* format values a caller passes: the recognized ones, one that is not, none
FormatInputs == RecognizedFormats \cup {"bogus", Undefined}

\* locale values a caller passes: none, a supported tag, a well-formed tag
\* without locale data, a tag that is not well-formed BCP 47
LocaleInputs == {Undefined, "fr", "invalid-locale", "en_US"}

\* `options` omitted: the parameter default {}
NoOptions == [format |-> Undefined, locale |-> Undefined]

OptionInputs == [format : FormatInputs, locale : LocaleInputs]

\* mutant: 'relative' as the default format
FormatOfDefaultRelative(o) == IF o.format = Undefined THEN "relative" ELSE o.format

\* mutant: the locale of the formatter an earlier call constructed
LocaleOfRemembered(o) ==
    IF other.rtfLog # <<>>
    THEN other.rtfLog[1].locale
    ELSE IF o.locale = Undefined THEN "en" ELSE o.locale

\* const { format = 'object', locale = 'en' } = options
FormatOf(o) == IF o.format = Undefined THEN "object" ELSE o.format

LocaleOf(o) == IF o.locale = Undefined THEN "en" ELSE o.locale

----------------------------------------------------------------------------
(* The differences and the components *)

\* const isFuture = startDate.getTime() > now.getTime()
IsFuture(sd, nw) == MsGreater(sd.t, nw.t)

\* mutant: now - startDate without Math.abs, as in the first versions
DiffMillisecondsSigned(sd, nw) == MsMinus(nw.t, sd.t)

\* const diffMilliseconds = Math.abs(now.getTime() - startDate.getTime())
DiffMilliseconds(sd, nw) == MsAbsDiff(nw.t, sd.t)

\* Math.floor(diffMilliseconds / 1000)
DiffSeconds(dms) == dms.s + (dms.ms \div MsPerSecond)

\* mutant: the minutes of the hour in place of the total
DiffMinutesWrapped(dsec) == (dsec \div SecondsPerMinute) % MinutesPerHour

\* Math.floor(diffSeconds / 60)
DiffMinutes(dsec) == dsec \div SecondsPerMinute

\* mutant: minutes divided by the hours of a day
DiffHoursBy24(dmin) == dmin \div HoursPerDay

\* Math.floor(diffMinutes / 60)
DiffHours(dmin) == dmin \div MinutesPerHour

\* mutant: both end days counted
DiffDaysInclusive(dh) == (dh \div HoursPerDay) + 1

\* Math.floor(diffHours / 24)
DiffDays(dh) == dh \div HoursPerDay

\* mutant: months of 31 days
DiffMonthsBy31(dd) == dd \div 31

\* Math.floor(diffDays / 30)
DiffMonths(dd) == dd \div DaysPerMonth

\* mutant: months rounded to the nearest year
DiffYearsRounded(dmo) == (dmo + 6) \div MonthsPerYear

\* Math.floor(diffMonths / 12)
DiffYears(dmo) == dmo \div MonthsPerYear

\* const years = diffYears
Years(dy) == dy

\* mutant: the total in place of the remainder
MonthsTotal(dmo) == dmo

\* const months = diffMonths % 12
Months(dmo) == dmo % MonthsPerYear

\* mutant: a month of 31 days in the remainder only
DaysBy31(dd) == dd % 31

\* const days = diffDays % 30
Days(dd) == dd % DaysPerMonth

\* mutant: hours on a 12-hour dial
HoursBy12(dh) == dh % 12

\* const hours = diffHours % 24
Hours(dh) == dh % HoursPerDay

\* const minutes = diffMinutes % 60
Minutes(dmin) == dmin % MinutesPerHour

\* const seconds = diffSeconds % 60
Seconds(dsec) == dsec % SecondsPerMinute

\* const milliseconds = diffMilliseconds % 1000
Milliseconds(dms) == dms.ms % MsPerSecond

\* every local of the function between the clock read and the switch
Locals(sd, nw) ==
    LET dms == DiffMilliseconds(sd, nw)
        dsec == DiffSeconds(dms)
        dmin == DiffMinutes(dsec)
        dh == DiffHours(dmin)
        dd == DiffDays(dh)
        dmo == DiffMonths(dd)
        dy == DiffYears(dmo)
    IN  [isFuture |-> IsFuture(sd, nw),
         diffMilliseconds |-> dms,
         diffSeconds |-> dsec,
         diffMinutes |-> dmin,
         diffHours |-> dh,
         diffDays |-> dd,
         diffMonths |-> dmo,
         diffYears |-> dy,
         years |-> Years(dy),
         months |-> Months(dmo),
         days |-> Days(dd),
         hours |-> Hours(dh),
         minutes |-> Minutes(dmin),
         seconds |-> Seconds(dsec),
         milliseconds |-> Milliseconds(dms)]

----------------------------------------------------------------------------
(* Values a call returns or throws *)

NoPhrase == [text |-> "", locale |-> "", count |-> 0, unit |-> ""]

NoBreakdown ==
    [date |-> NaNTime, asOf |-> NaNTime, years |-> 0, months |-> 0, days |-> 0,
     hours |-> 0, minutes |-> 0, seconds |-> 0, milliseconds |-> 0]

NoResult == [kind |-> "none", n |-> 0, big |-> ZeroMs, str |-> NoPhrase, obj |-> NoBreakdown, error |-> ""]

\* return <a number of seconds or a coarser unit>
ReturnNumber(k) == [NoResult EXCEPT !.kind = "number", !.n = k]

\* return diffMilliseconds
ReturnMilliseconds(m) == [NoResult EXCEPT !.kind = "milliseconds", !.big = m]

\* return <a string>
ReturnString(p) == [NoResult EXCEPT !.kind = "string", !.str = p]

\* return { date, asOf, years, ... }
ReturnObject(o) == [NoResult EXCEPT !.kind = "object", !.obj = o]

\* throw new <name>(<message>)
Throw(msg) == [NoResult EXCEPT !.kind = "throw", !.error = msg]

InvalidDateError == "Error: Invalid date input"

\* calling startDate.getTime() on a value that has no such method
NotAFunctionError == "TypeError: startDate.getTime is not a function"

LocaleRangeError == "RangeError: Incorrect locale information provided"

\* the literal 'now'
NowString == [NoPhrase EXCEPT !.text = "now"]

----------------------------------------------------------------------------
(* Intl.RelativeTimeFormat, the host's formatter *)

\* tags that are well-formed BCP 47 ('en_US' is not: the constructor throws
\* a RangeError for it)
WellFormedLocales == {"en", "fr", "invalid-locale"}

\* tags the host has locale data for; any other well-formed tag resolves to
\* the host's default locale
SupportedLocales == {"en", "fr"}

ResolvedLocale(l) == IF l \in SupportedLocales THEN l ELSE "en"

\* rtf.format(count, unit): the phrase of the resolved locale for the signed
\* count of the unit
\* (numeric: 'auto' words zero seconds as "now" in English)
RtfFormat(l, count, unit) ==
    IF count = 0 /\ unit = "second" /\ ResolvedLocale(l) = "en"
    THEN NowString
    ELSE [text |-> "phrase", locale |-> ResolvedLocale(l), count |-> count, unit |-> unit]

LogNew(l) == [op |-> "new", locale |-> l, count |-> 0, unit |-> ""]

LogFormat(l, count, unit) == [op |-> "format", locale |-> l, count |-> count, unit |-> unit]

----------------------------------------------------------------------------
(* The switch *)

\* mutant: every count negated, as in the first versions
SignAlwaysPast(L) == -1

\* const sign = isFuture ? 1 : -1
Sign(L) == IF L.isFuture THEN 1 ELSE -1

\* mutant: the ladder without its month rung
RelativeLadderWithoutMonths(L) ==
    <<[total |-> L.diffYears, unit |-> "year"],
      [total |-> L.diffDays, unit |-> "day"],
      [total |-> L.diffHours, unit |-> "hour"],
      [total |-> L.diffMinutes, unit |-> "minute"],
      [total |-> L.diffSeconds, unit |-> "second"]>>

\* the (count, unit) pairs the 'relative' case tries in order; the first
\* whose total is non-zero is formatted
RelativeLadder(L) ==
    <<[total |-> L.diffYears, unit |-> "year"],
      [total |-> L.diffMonths, unit |-> "month"],
      [total |-> L.diffDays, unit |-> "day"],
      [total |-> L.diffHours, unit |-> "hour"],
      [total |-> L.diffMinutes, unit |-> "minute"],
      [total |-> L.diffSeconds, unit |-> "second"]>>

\* case 'relative': the outcome and what the formatter was asked
RelativeCase(L, locale) ==
    IF locale \notin WellFormedLocales
    THEN [result |-> Throw(LocaleRangeError), log |-> <<LogNew(locale)>>]
    ELSE LET ladder == RelativeLadder(L)
             hits == {i \in 1..Len(ladder) : ladder[i].total # 0}
         IN  IF hits = {}
             THEN [result |-> ReturnString(NowString), log |-> <<LogNew(locale)>>]
             ELSE LET i == CHOOSE j \in hits : \A k \in hits : j <= k
                      count == Sign(L) * ladder[i].total
                  IN  [result |-> ReturnString(RtfFormat(locale, count, ladder[i].unit)),
                       log |-> <<LogNew(locale), LogFormat(locale, count, ladder[i].unit)>>]

\* mutant: the breakdown without the special case for future dates
ObjectCaseSymmetric(L, sd, nw) ==
    ReturnObject(
        [date |-> sd, asOf |-> nw, years |-> L.years, months |-> L.months, days |-> L.days,
         hours |-> L.hours, minutes |-> L.minutes, seconds |-> L.seconds,
         milliseconds |-> L.milliseconds])

\* mutant: date and asOf exchanged
ObjectCaseSwapped(L, sd, nw) ==
    ReturnObject(
        [date |-> nw,
         asOf |-> sd,
         years |-> IF L.isFuture THEN 0 ELSE L.years,
         months |-> IF L.isFuture THEN L.diffDays \div DaysPerMonth ELSE L.months,
         days |-> L.days, hours |-> L.hours, minutes |-> L.minutes, seconds |-> L.seconds,
         milliseconds |-> L.milliseconds])

\* mutant: asOf from a second look at the clock
ObjectCaseResampled(L, sd, nw) ==
    ReturnObject(
        [date |-> sd,
         asOf |-> clock,
         years |-> IF L.isFuture THEN 0 ELSE L.years,
         months |-> IF L.isFuture THEN L.diffDays \div DaysPerMonth ELSE L.months,
         days |-> L.days, hours |-> L.hours, minutes |-> L.minutes, seconds |-> L.seconds,
         milliseconds |-> L.milliseconds])

\* default: the complete breakdown object
ObjectCase(L, sd, nw) ==
    ReturnObject(
        [date |-> sd,
         asOf |-> nw,
         years |-> IF L.isFuture THEN 0 ELSE L.years,
         months |-> IF L.isFuture THEN L.diffDays \div DaysPerMonth ELSE L.months,
         days |-> L.days,
         hours |-> L.hours,
         minutes |-> L.minutes,
         seconds |-> L.seconds,
         milliseconds |-> L.milliseconds])

\* mutant: the formatter constructed ahead of the switch
SwitchFormatterFirst(L, sd, nw, o) ==
    LET format == FormatOf(o)
        locale == LocaleOf(o)
    IN  CASE locale \notin WellFormedLocales -> [result |-> Throw(LocaleRangeError), log |-> <<LogNew(locale)>>]
          [] format = "milliseconds" -> [result |-> ReturnMilliseconds(L.diffMilliseconds), log |-> <<LogNew(locale)>>]
          [] format = "seconds" -> [result |-> ReturnNumber(L.diffSeconds), log |-> <<LogNew(locale)>>]
          [] format = "minutes" -> [result |-> ReturnNumber(L.diffMinutes), log |-> <<LogNew(locale)>>]
          [] format = "hours" -> [result |-> ReturnNumber(L.diffHours), log |-> <<LogNew(locale)>>]
          [] format = "days" -> [result |-> ReturnNumber(L.diffDays), log |-> <<LogNew(locale)>>]
          [] format = "months" -> [result |-> ReturnNumber(L.diffMonths), log |-> <<LogNew(locale)>>]
          [] format = "years" -> [result |-> ReturnNumber(L.diffYears), log |-> <<LogNew(locale)>>]
          [] format = "relative" -> RelativeCase(L, locale)
          [] OTHER -> [result |-> ObjectCase(L, sd, nw), log |-> <<LogNew(locale)>>]

\* switch (format) { ... }
Switch(L, sd, nw, o) ==
    LET format == FormatOf(o)
        locale == LocaleOf(o)
    IN  CASE format = "milliseconds" -> [result |-> ReturnMilliseconds(L.diffMilliseconds), log |-> <<>>]
          [] format = "seconds" -> [result |-> ReturnNumber(L.diffSeconds), log |-> <<>>]
          [] format = "minutes" -> [result |-> ReturnNumber(L.diffMinutes), log |-> <<>>]
          [] format = "hours" -> [result |-> ReturnNumber(L.diffHours), log |-> <<>>]
          [] format = "days" -> [result |-> ReturnNumber(L.diffDays), log |-> <<>>]
          [] format = "months" -> [result |-> ReturnNumber(L.diffMonths), log |-> <<>>]
          [] format = "years" -> [result |-> ReturnNumber(L.diffYears), log |-> <<>>]
          [] format = "relative" -> RelativeCase(L, locale)
          [] OTHER -> [result |-> ObjectCase(L, sd, nw), log |-> <<>>]

----------------------------------------------------------------------------
(* Arguments of the call *)

\* distances between reference and observation below one day, as
\* <<hours, minutes, seconds, milliseconds>>
TimeOfDayCases ==
    {<<0, 0, 0, 0>>, <<0, 0, 0, 1>>, <<0, 0, 0, 999>>, <<0, 0, 1, 0>>, <<0, 0, 59, 999>>,
     <<0, 1, 0, 0>>, <<0, 59, 59, 999>>, <<1, 0, 0, 0>>, <<23, 0, 0, 0>>, <<23, 59, 59, 999>>}

\* the distance of y years, mo months, d days and the time of day tod
Distance(y, mo, d, tod) ==
    Ms(((((y * MonthsPerYear + mo) * DaysPerMonth + d) * HoursPerDay + tod[1])
            * MinutesPerHour + tod[2]) * SecondsPerMinute + tod[3],
       tod[4])

Distances ==
    {Distance(y, mo, d, tod) : y \in 0..MaxYears, mo \in {0, 11}, d \in {0, 29}, tod \in TimeOfDayCases}

BaseInstant == Ms(ObservationBase, 0)

\* reference instants: before, at and after the base observation instant
ReferenceInstants ==
    {MsMinus(BaseInstant, dist) : dist \in Distances}
        \cup {Ms(BaseInstant.s + dist.s, dist.ms) : dist \in Distances}

\* zone offsets a date-time string is written with: Z and +09:00
ZoneOffsets == {0, 32400}

DateInputs ==
    {DateObject(Time(t)) : t \in ReferenceInstants}
        \cup {DateString(Ms(t.s + off, t.ms), off) : t \in ReferenceInstants, off \in ZoneOffsets}
        \cup {BadString, DateObject(NaNTime)}

----------------------------------------------------------------------------
(* The call, step by step *)

\* no other call
NoCall ==
    [date |-> DateObject(NaNTime), options |-> NoOptions, pc |-> "none", startDate |-> NaNTime,
     now |-> NaNTime, clockReads |-> 0, rtfLog |-> <<>>, result |-> NoResult]

Init ==
    /\ date \in DateInputs
    /\ options \in OptionInputs
    /\ clock = Time(BaseInstant)
    /\ ticks = 0
    /\ pc = "start"
    /\ startDate = NaNTime
    /\ now = NaNTime
    /\ clockReads = 0
    /\ rtfLog = <<>>
    /\ result = NoResult
    /\ other = NoCall

\* the host clock advances by a millisecond
Tick ==
    /\ ticks < MaxTicks
    /\ ticks' = ticks + 1
    /\ clock' = Time(MsPlus(clock.t, 1))
    /\ UNCHANGED <<other, date, options, pc, startDate, now, clockReads, rtfLog, result>>

\* startDate is computed and validated: an invalid date throws
Validate ==
    /\ pc = "start"
    /\ startDate' = StartDateOf(date)
    /\ IF ~HasGetTime(date)
       THEN /\ result' = Throw(NotAFunctionError)
            /\ pc' = "done"
       ELSE IF IsInvalid(StartDateOf(date))
       THEN /\ result' = Throw(InvalidDateError)
            /\ pc' = "done"
       ELSE /\ result' = result
            /\ pc' = "validated"
    /\ UNCHANGED <<other, date, options, clock, ticks, now, clockReads, rtfLog>>

\* const now = new Date()
ReadClock ==
    /\ pc = "validated"
    /\ now' = clock
    /\ clockReads' = clockReads + 1
    /\ pc' = "clockRead"
    /\ UNCHANGED <<other, date, options, clock, ticks, startDate, rtfLog, result>>

\* the differences, the components, the options and the switch
Compute ==
    /\ pc = "clockRead"
    /\ LET out == Switch(Locals(startDate, now), startDate, now, options)
       IN  /\ result' = out.result
           /\ rtfLog' = out.log
    /\ pc' = "done"
    /\ UNCHANGED <<other, date, options, clock, ticks, startDate, now, clockReads>>

Next == Tick \/ Validate \/ ReadClock \/ Compute

Spec == Init /\ [][Next]_vars

----------------------------------------------------------------------------
(* The calls README.md shows: "As of May 1, 2025", timeSince('2020-01-01') *)
(* and the other forms of the date argument                                *)

\* 2025-05-01T00:00:00.000Z, the asOf of the README's output
ReadmeObservation == 1746057600

\* 2020-01-01T00:00:00.000Z, the date of the README's output
ReadmeReference == 1577836800

\* the reference as a string, a Date object and a Unix timestamp
ReadmeDateInputs ==
    {DateString(Ms(ReadmeReference + off, 0), off) : off \in ZoneOffsets}
        \cup {DateObject(Time(Ms(ReadmeReference, 0))), DateNumber(Time(Ms(ReadmeReference, 0)))}

InitReadme ==
    /\ date \in ReadmeDateInputs
    /\ options \in OptionInputs
    /\ clock = Time(Ms(ReadmeObservation, 0))
    /\ ticks = 0
    /\ pc = "start"
    /\ startDate = NaNTime
    /\ now = NaNTime
    /\ clockReads = 0
    /\ rtfLog = <<>>
    /\ result = NoResult
    /\ other = NoCall

SpecReadme == InitReadme /\ [][Next]_vars

----------------------------------------------------------------------------
(* dist/time-since.esm.js, the build package.json names as "module"        *)

\* JavaScript's %: the remainder has the sign of the dividend
JsRem(a, b) == IF a >= 0 THEN a % b ELSE 0 - ((0 - a) % b)

\* var diffMilliseconds = now - startDate (signed; a negative count q * 1000
\* + r is written with q negative and r in 0..999)
EsmDiffMilliseconds(sd, nw) == MsMinus(nw.t, sd.t)

\* diffMilliseconds % 1000
EsmMilliseconds(dms) ==
    IF dms.s >= 0 THEN dms.ms
    ELSE IF dms.ms = 0 THEN 0 ELSE dms.ms - MsPerSecond

\* the locals of the ESM build between the clock read and the switch
EsmLocals(sd, nw) ==
    LET dms == EsmDiffMilliseconds(sd, nw)
        dsec == dms.s
        dmin == dsec \div SecondsPerMinute
        dh == dmin \div MinutesPerHour
        dd == dh \div HoursPerDay
        dmo == dd \div DaysPerMonth
        dy == dmo \div MonthsPerYear
    IN  [diffMilliseconds |-> dms,
         diffSeconds |-> dsec,
         diffMinutes |-> dmin,
         diffHours |-> dh,
         diffDays |-> dd,
         diffMonths |-> dmo,
         diffYears |-> dy,
         years |-> dy,
         months |-> JsRem(dmo, MonthsPerYear),
         days |-> JsRem(dd, DaysPerMonth),
         hours |-> JsRem(dh, HoursPerDay),
         minutes |-> JsRem(dmin, MinutesPerHour),
         seconds |-> JsRem(dsec, SecondsPerMinute),
         milliseconds |-> EsmMilliseconds(dms)]

\* case 'relative' of the ESM build
EsmRelativeCase(L, locale) ==
    IF locale \notin WellFormedLocales
    THEN [result |-> Throw(LocaleRangeError), log |-> <<LogNew(locale)>>]
    ELSE LET pair ==
                 CASE L.diffYears # 0 -> [count |-> 0 - L.diffYears, unit |-> "year"]
                   [] L.diffMonths # 0 -> [count |-> 0 - L.diffMonths, unit |-> "month"]
                   [] L.diffDays # 0 -> [count |-> 0 - L.diffDays, unit |-> "day"]
                   [] L.diffHours # 0 -> [count |-> 0 - L.diffHours, unit |-> "hour"]
                   [] L.diffMinutes # 0 -> [count |-> 0 - L.diffMinutes, unit |-> "minute"]
                   [] OTHER -> [count |-> 0 - L.diffSeconds, unit |-> "second"]
         IN  [result |-> ReturnString(RtfFormat(locale, pair.count, pair.unit)),
              log |-> <<LogNew(locale), LogFormat(locale, pair.count, pair.unit)>>]

\* switch (format) of the ESM build
EsmSwitch(L, sd, nw, o) ==
    LET format == FormatOf(o)
        locale == LocaleOf(o)
    IN  CASE format = "milliseconds" -> [result |-> ReturnMilliseconds(L.diffMilliseconds), log |-> <<>>]
          [] format = "seconds" -> [result |-> ReturnNumber(L.diffSeconds), log |-> <<>>]
          [] format = "minutes" -> [result |-> ReturnNumber(L.diffMinutes), log |-> <<>>]
          [] format = "hours" -> [result |-> ReturnNumber(L.diffHours), log |-> <<>>]
          [] format = "days" -> [result |-> ReturnNumber(L.diffDays), log |-> <<>>]
          [] format = "months" -> [result |-> ReturnNumber(L.diffMonths), log |-> <<>>]
          [] format = "years" -> [result |-> ReturnNumber(L.diffYears), log |-> <<>>]
          [] format = "relative" -> EsmRelativeCase(L, locale)
          [] OTHER ->
                [result |-> ReturnObject(
                                [date |-> sd, asOf |-> nw, years |-> L.years, months |-> L.months,
                                 days |-> L.days, hours |-> L.hours, minutes |-> L.minutes,
                                 seconds |-> L.seconds, milliseconds |-> L.milliseconds]),
                 log |-> <<>>]

\* startDate and if (isNaN(startDate)) throw
EsmValidate ==
    /\ pc = "start"
    /\ startDate' = StartDateOf(date)
    /\ IF StartDateOf(date).nan
       THEN /\ result' = Throw(InvalidDateError)
            /\ pc' = "done"
       ELSE /\ result' = result
            /\ pc' = "validated"
    /\ UNCHANGED <<other, date, options, clock, ticks, now, clockReads, rtfLog>>

\* var now = new Date()
EsmReadClock ==
    /\ pc = "validated"
    /\ now' = clock
    /\ clockReads' = clockReads + 1
    /\ pc' = "clockRead"
    /\ UNCHANGED <<other, date, options, clock, ticks, startDate, rtfLog, result>>

\* the differences, the components, the options and the switch
EsmCompute ==
    /\ pc = "clockRead"
    /\ LET out == EsmSwitch(EsmLocals(startDate, now), startDate, now, options)
       IN  /\ result' = out.result
           /\ rtfLog' = out.log
    /\ pc' = "done"
    /\ UNCHANGED <<other, date, options, clock, ticks, startDate, now, clockReads>>

NextEsm == Tick \/ EsmValidate \/ EsmReadClock \/ EsmCompute

SpecEsm == Init /\ [][NextEsm]_vars

----------------------------------------------------------------------------
(* The variant of timeSince with the timeZone and allowFuture options      *)
(* (src/unnamed/part_001)                                                  *)

FutureNotAllowedError == "Error: Future dates are not allowed unless allowFuture is set to true."

TimeZoneRangeError == "RangeError: Invalid time zone specified"

\* timeZone values a caller passes: none (the host's zone), an IANA zone,
\* a name that is no zone
TimeZoneInputs == {Undefined, "Asia/Kolkata", "Not/AZone"}

\* allowFuture values a caller passes: none, false, true
AllowFutureInputs == {Undefined, "false", "true"}

AfOptionInputs ==
    [format : FormatInputs, locale : {Undefined, "fr", "en_US"},
     timeZone : TimeZoneInputs, allowFuture : AllowFutureInputs]

\* seconds the wall clock of the zone is ahead of the host's wall clock
\* (the host runs in UTC; timeZone defaults to the host's zone)
ZoneAhead(tz) == IF tz = "Asia/Kolkata" THEN 19800 ELSE 0

\* new Date(new Date().toLocaleString('en-US', { timeZone })): the wall time
\* of the zone, written to the second, read back as host time
AfNow(clk, tz) == Time(Ms(clk.t.s + ZoneAhead(tz), 0))

\* !allowFuture, with allowFuture = false by default
AfForbidsFuture(o) == o.allowFuture # "true"

\* const validLocale = supportedLocales.includes(locale) ? locale : 'en'
AfValidLocale(o) == IF LocaleOf(o) \in SupportedLocales THEN LocaleOf(o) ELSE "en"

\* the switch of the variant: the signed diffMilliseconds, the totals of the
\* absolute difference, the negated remainders in a relative phrase
AfSwitch(sd, nw, o) ==
    LET signed == MsMinus(nw.t, sd.t)
        abs == MsAbsDiff(nw.t, sd.t)
        dsec == abs.s
        dmin == dsec \div SecondsPerMinute
        dh == dmin \div MinutesPerHour
        dd == dh \div HoursPerDay
        dmo == dd \div DaysPerMonth
        dy == dmo \div MonthsPerYear
        format == FormatOf(o)
        loc == AfValidLocale(o)
        pair ==
            CASE dy # 0 -> [count |-> 0 - dy, unit |-> "year"]
              [] dmo # 0 -> [count |-> 0 - (dmo % MonthsPerYear), unit |-> "month"]
              [] dd # 0 -> [count |-> 0 - (dd % DaysPerMonth), unit |-> "day"]
              [] dh # 0 -> [count |-> 0 - (dh % HoursPerDay), unit |-> "hour"]
              [] dmin # 0 -> [count |-> 0 - (dmin % MinutesPerHour), unit |-> "minute"]
              [] OTHER -> [count |-> 0 - (dsec % SecondsPerMinute), unit |-> "second"]
    IN  CASE format = "milliseconds" -> [result |-> ReturnMilliseconds(signed), log |-> <<>>]
          [] format = "seconds" -> [result |-> ReturnNumber(dsec), log |-> <<>>]
          [] format = "minutes" -> [result |-> ReturnNumber(dmin), log |-> <<>>]
          [] format = "hours" -> [result |-> ReturnNumber(dh), log |-> <<>>]
          [] format = "days" -> [result |-> ReturnNumber(dd), log |-> <<>>]
          [] format = "months" -> [result |-> ReturnNumber(dmo), log |-> <<>>]
          [] format = "years" -> [result |-> ReturnNumber(dy), log |-> <<>>]
          [] format = "relative" ->
                [result |-> ReturnString(RtfFormat(loc, pair.count, pair.unit)),
                 log |-> <<LogNew(loc), LogFormat(loc, pair.count, pair.unit)>>]
          [] OTHER ->
                [result |-> ReturnObject(
                                [date |-> sd, asOf |-> nw, years |-> dy,
                                 months |-> dmo % MonthsPerYear, days |-> dd % DaysPerMonth,
                                 hours |-> dh % HoursPerDay, minutes |-> dmin % MinutesPerHour,
                                 seconds |-> dsec % SecondsPerMinute, milliseconds |-> abs.ms]),
                 log |-> <<>>]

\* references of the variant's calls: Date objects and strings written at Z
AfDistances ==
    {Distance(y, mo, 0, tod) : y \in 0..MaxYears, mo \in {0, 11},
        tod \in {<<0, 0, 0, 0>>, <<0, 0, 0, 1>>, <<0, 0, 0, 999>>, <<0, 0, 1, 0>>, <<23, 59, 59, 999>>}}

AfDateInputs ==
    {DateObject(Time(MsMinus(BaseInstant, dist))) : dist \in AfDistances}
        \cup {DateString(Ms(BaseInstant.s + dist.s, dist.ms), 0) : dist \in AfDistances}
        \cup {DateObject(Time(Ms(BaseInstant.s + dist.s, dist.ms))) : dist \in AfDistances}
        \cup {BadString, DateObject(NaNTime)}

AfInit ==
    /\ date \in AfDateInputs
    /\ options \in AfOptionInputs
    /\ clock = Time(BaseInstant)
    /\ ticks = 0
    /\ pc = "start"
    /\ startDate = NaNTime
    /\ now = NaNTime
    /\ clockReads = 0
    /\ rtfLog = <<>>
    /\ result = NoResult
    /\ other = NoCall

\* startDate and if (isNaN(startDate.getTime())) throw
AfValidate ==
    /\ pc = "start"
    /\ startDate' = StartDateOf(date)
    /\ IF IsInvalid(StartDateOf(date))
       THEN /\ result' = Throw(InvalidDateError)
            /\ pc' = "done"
       ELSE /\ result' = result
            /\ pc' = "validated"
    /\ UNCHANGED <<other, date, options, clock, ticks, now, clockReads, rtfLog>>

\* the options, then now: the clock is read, and a timeZone that is no zone
\* makes toLocaleString throw
AfReadClock ==
    /\ pc = "validated"
    /\ clockReads' = clockReads + 1
    /\ IF options.timeZone = "Not/AZone"
       THEN /\ result' = Throw(TimeZoneRangeError)
            /\ now' = now
            /\ pc' = "done"
       ELSE /\ result' = result
            /\ now' = AfNow(clock, options.timeZone)
            /\ pc' = "clockRead"
    /\ UNCHANGED <<other, date, options, clock, ticks, startDate, rtfLog>>

\* diffMilliseconds, the check for future dates, the rest of the function
AfCompute ==
    /\ pc = "clockRead"
    /\ IF MsGreater(startDate.t, now.t) /\ AfForbidsFuture(options)
       THEN /\ result' = Throw(FutureNotAllowedError)
            /\ rtfLog' = rtfLog
       ELSE LET out == AfSwitch(startDate, now, options)
            IN  /\ result' = out.result
                /\ rtfLog' = out.log
    /\ pc' = "done"
    /\ UNCHANGED <<other, date, options, clock, ticks, startDate, now, clockReads>>

AfNext == Tick \/ AfValidate \/ AfReadClock \/ AfCompute

SpecAllowFuture == AfInit /\ [][AfNext]_vars

----------------------------------------------------------------------------
(* Several calls: one after another, and side by side.  The function holds *)
(* nothing outside its parameters and locals, so another call is just      *)
(* another set of them; the clock is the one thing the calls have in       *)
(* common.                                                                 *)

\* references of these calls: at, just before, a day before (as a Date and
\* as a string) and 11 months after the base instant, and an unparseable one
FewDateInputs ==
    {DateObject(Time(BaseInstant)),
     DateObject(Time(MsMinus(BaseInstant, Ms(0, 999)))),
     DateObject(Time(MsMinus(BaseInstant, Distance(0, 0, 1, <<0, 0, 0, 0>>)))),
     DateString(MsMinus(BaseInstant, Distance(0, 0, 1, <<0, 0, 0, 0>>)), 0),
     DateString(Ms(BaseInstant.s + Distance(0, 11, 0, <<9, 0, 0, 0>>).s, 0), 32400),
     BadString}

FewOptionInputs == [format : {Undefined, "relative", "days"}, locale : {Undefined, "fr", "en_US"}]

\* the call as it stands, to be kept when the next one begins
ThisCall ==
    [date |-> date, options |-> options, pc |-> pc, startDate |-> startDate, now |-> now,
     clockReads |-> clockReads, rtfLog |-> rtfLog, result |-> result]

InitSequence ==
    /\ date \in FewDateInputs
    /\ options \in FewOptionInputs
    /\ clock = Time(BaseInstant)
    /\ ticks = 0
    /\ pc = "start"
    /\ startDate = NaNTime
    /\ now = NaNTime
    /\ clockReads = 0
    /\ rtfLog = <<>>
    /\ result = NoResult
    /\ other = NoCall

\* the call has returned or thrown; the caller calls again, with fresh
\* parameters and locals
NextCall ==
    /\ pc = "done"
    /\ other' = ThisCall
    /\ date' \in FewDateInputs
    /\ options' \in FewOptionInputs
    /\ pc' = "start"
    /\ startDate' = NaNTime
    /\ now' = NaNTime
    /\ clockReads' = 0
    /\ rtfLog' = <<>>
    /\ result' = NoResult
    /\ UNCHANGED <<clock, ticks>>

NextSequence == Tick \/ Validate \/ ReadClock \/ Compute \/ NextCall

SpecSequence == InitSequence /\ [][NextSequence]_vars

\* a second call begun alongside the first
InitInterleaved ==
    /\ date \in FewDateInputs
    /\ options \in FewOptionInputs
    /\ clock = Time(BaseInstant)
    /\ ticks = 0
    /\ pc = "start"
    /\ startDate = NaNTime
    /\ now = NaNTime
    /\ clockReads = 0
    /\ rtfLog = <<>>
    /\ result = NoResult
    /\ other \in {[NoCall EXCEPT !.date = d, !.options = o, !.pc = "start"] :
                    d \in FewDateInputs, o \in FewOptionInputs}

\* the steps of the other call: the same code on its own parameters and
\* locals
OtherValidate ==
    /\ other.pc = "start"
    /\ other' =
          IF ~HasGetTime(other.date)
          THEN [other EXCEPT !.startDate = StartDateOf(other.date),
                             !.result = Throw(NotAFunctionError), !.pc = "done"]
          ELSE IF IsInvalid(StartDateOf(other.date))
          THEN [other EXCEPT !.startDate = StartDateOf(other.date),
                             !.result = Throw(InvalidDateError), !.pc = "done"]
          ELSE [other EXCEPT !.startDate = StartDateOf(other.date), !.pc = "validated"]
    /\ UNCHANGED <<date, options, clock, ticks, pc, startDate, now, clockReads, rtfLog, result>>

OtherReadClock ==
    /\ other.pc = "validated"
    /\ other' = [other EXCEPT !.now = clock, !.clockReads = @ + 1, !.pc = "clockRead"]
    /\ UNCHANGED <<date, options, clock, ticks, pc, startDate, now, clockReads, rtfLog, result>>

OtherCompute ==
    /\ other.pc = "clockRead"
    /\ LET out == Switch(Locals(other.startDate, other.now), other.startDate, other.now,
                         other.options)
       IN  other' = [other EXCEPT !.result = out.result, !.rtfLog = out.log, !.pc = "done"]
    /\ UNCHANGED <<date, options, clock, ticks, pc, startDate, now, clockReads, rtfLog, result>>

NextInterleaved ==
    \/ Tick
    \/ Validate
    \/ ReadClock
    \/ Compute
    \/ OtherValidate
    \/ OtherReadClock
    \/ OtherCompute

SpecInterleaved == InitInterleaved /\ [][NextInterleaved]_vars

----------------------------------------------------------------------------
(* What the properties are stated with: the arguments, the captured        *)
(* observation instant and the outcome, computed apart from the function   *)

\* the reference is not a valid instant: an unparseable string, or a Date
\* whose time value is NaN
ReferenceInvalid ==
    \/ date.type = "string" /\ ~date.parseable
    \/ date.type = "Date" /\ date.time.nan

\* the call is over and had a valid reference
Finished == pc = "done" /\ ~ReferenceInvalid

\* the reference lies strictly after / strictly before the observation
ReferenceAfter ==
    startDate.t.s > now.t.s \/ (startDate.t.s = now.t.s /\ startDate.t.ms > now.t.ms)

ReferenceBefore ==
    startDate.t.s < now.t.s \/ (startDate.t.s = now.t.s /\ startDate.t.ms < now.t.ms)

\* M = |observation - reference| as a millisecond count: the signed
\* difference limb by limb, its sign removed, then the borrow
Magnitude ==
    LET ds == now.t.s - startDate.t.s
        dm == now.t.ms - startDate.t.ms
        neg == ds < 0 \/ (ds = 0 /\ dm < 0)
        as == IF neg THEN 0 - ds ELSE ds
        am == IF neg THEN 0 - dm ELSE dm
    IN  IF am < 0 THEN [s |-> as - 1, ms |-> am + 1000] ELSE [s |-> as, ms |-> am]

\* the totals by successive floor division of M
TotalSeconds == Magnitude.s
TotalMinutes == TotalSeconds \div 60
TotalHours == TotalMinutes \div 60
TotalDays == TotalHours \div 24
TotalMonths == TotalDays \div 30
TotalYears == TotalMonths \div 12

\* what a call with the same reference, observation and locale returns for
\* another format
ReturnedFor(fmt) ==
    Switch(Locals(startDate, now), startDate, now, [options EXCEPT !.format = fmt]).result

\* the entries of rtfLog that ask for a phrase
FormatCalls == SelectSeq(rtfLog, LAMBDA e : e.op = "format")

----------------------------------------------------------------------------
(* C1: an invalid reference (unparseable string, Date with NaN time value) *)
(* makes the call fail with 'Invalid date input' and return no value, for  *)
(* every format and every locale.                                          *)
C1_InvalidDateThrows ==
    ReferenceInvalid =>
        /\ result.kind \in {"none", "throw"}
        /\ pc = "done" => (result.kind = "throw" /\ result.error = "Error: Invalid date input")
        /\ rtfLog = <<>>

C1_Witness ==
    /\ pc = "done"
    /\ date.type = "Date" /\ date.time.nan
    /\ options.format = "relative" /\ options.locale = "en_US"
    /\ result.kind = "throw"

(* C2: the single-unit formats return the totals by successive floor       *)
(* division of M = |observation - reference|: milliseconds = M, seconds =  *)
(* M div 1000, minutes = seconds div 60, hours = minutes div 60, days =    *)
(* hours div 24, months = days div 30, years = months div 12.              *)
C2_SingleUnitTotals ==
    (Finished /\ options.format \in SingleUnitFormats) =>
        /\ options.format = "milliseconds" => (result.kind = "milliseconds" /\ result.big = Magnitude)
        /\ options.format # "milliseconds" => result.kind = "number"
        /\ options.format = "seconds" => result.n = TotalSeconds
        /\ options.format = "minutes" => result.n = TotalMinutes
        /\ options.format = "hours" => result.n = TotalHours
        /\ options.format = "days" => result.n = TotalDays
        /\ options.format = "months" => result.n = TotalMonths
        /\ options.format = "years" => result.n = TotalYears

\* 'months' returns the total 23, not the remainder 11
C2_Witness ==
    /\ Finished /\ options.format = "months"
    /\ result.kind = "number" /\ result.n = 23

(* C3: every single-unit result is a non-negative integer, and the         *)
(* reference mirrored at the observation instant (as far after it as the   *)
(* reference is before it, or the reverse) gives the same number.          *)
C3_Mirror ==
    IF ReferenceAfter
    THEN MsMinus(now.t, Magnitude)
    ELSE [s |-> now.t.s + Magnitude.s + ((now.t.ms + Magnitude.ms) \div 1000),
          ms |-> (now.t.ms + Magnitude.ms) % 1000]

C3_NonNegativeSymmetric ==
    (Finished /\ options.format \in SingleUnitFormats) =>
        /\ result.n >= 0
        /\ result.big.s >= 0
        /\ result.big.ms \in 0..999
        /\ result = Switch(Locals(Time(C3_Mirror), now), Time(C3_Mirror), now, options).result

\* a reference 389 days ahead gives 389 days
C3_Witness ==
    /\ Finished /\ options.format = "days"
    /\ ReferenceAfter
    /\ result.n = 389

(* C4: for a reference strictly before the observation the breakdown has   *)
(* years >= 0, months in 0..11, days in 0..29, hours in 0..23, minutes in  *)
(* 0..59, seconds in 0..59 and milliseconds in 0..999.                     *)
C4_PastBreakdownInRange ==
    (Finished /\ result.kind = "object" /\ ReferenceBefore) =>
        /\ result.obj.years >= 0
        /\ result.obj.months \in 0..11
        /\ result.obj.days \in 0..29
        /\ result.obj.hours \in 0..23
        /\ result.obj.minutes \in 0..59
        /\ result.obj.seconds \in 0..59
        /\ result.obj.milliseconds \in 0..999

\* every component at the top of its range
C4_Witness ==
    /\ Finished /\ result.kind = "object" /\ ReferenceBefore
    /\ result.obj.years = 1 /\ result.obj.months = 11 /\ result.obj.days = 29
    /\ result.obj.hours = 23 /\ result.obj.minutes = 59 /\ result.obj.seconds = 59
    /\ result.obj.milliseconds = 999

(* C5: for a reference at or before the observation each component of the  *)
(* breakdown is the remainder of the total the single-unit format returns  *)
(* for the same reference and observation: months mod 12, days mod 30,     *)
(* hours mod 24, minutes mod 60, seconds mod 60, milliseconds mod 1000,    *)
(* and years is the total of years.                                        *)
C5_RemaindersOfTotals ==
    (Finished /\ result.kind = "object" /\ ~ReferenceAfter) =>
        /\ result.obj.years = ReturnedFor("years").n
        /\ result.obj.months = ReturnedFor("months").n % 12
        /\ result.obj.days = ReturnedFor("days").n % 30
        /\ result.obj.hours = ReturnedFor("hours").n % 24
        /\ result.obj.minutes = ReturnedFor("minutes").n % 60
        /\ result.obj.seconds = ReturnedFor("seconds").n % 60
        /\ result.obj.milliseconds = ReturnedFor("milliseconds").big.ms % 1000

\* 719 days back: 29 days beyond 23 months
C5_Witness ==
    /\ Finished /\ result.kind = "object" /\ ReferenceBefore
    /\ ReturnedFor("days").n = 719
    /\ result.obj.days = 29
    /\ result.obj.months = 11

C7_EveryBreakdownInRange ==
    (Finished /\ result.kind = "object") =>
        /\ result.obj.months \in 0..11
        /\ result.obj.days \in 0..29
        /\ result.obj.hours \in 0..23
        /\ result.obj.minutes \in 0..59
        /\ result.obj.seconds \in 0..59
        /\ result.obj.milliseconds \in 0..999

(* C8: in every breakdown returned, for a past, equal or future reference, *)
(* years is never negative and is the number of full 360-day periods in    *)
(* the absolute difference, floor(M / 360 days).                           *)
C8_YearsAre360DayPeriods ==
    (Finished /\ result.kind = "object") =>
        /\ result.obj.years >= 0
        /\ result.obj.years = Magnitude.s \div 31104000

(* C9: with format 'relative' the formatter is asked for exactly one       *)
(* (count, unit) pair: the unit is the first of year, month, day, hour,    *)
(* minute, second whose total is non-zero, the magnitude of the count is   *)
(* that total, and the count is negative for a reference at or before the  *)
(* observation and positive for one after it.                              *)
C9_FirstNonZero ==
    CASE TotalYears # 0 -> [total |-> TotalYears, unit |-> "year"]
      [] TotalMonths # 0 -> [total |-> TotalMonths, unit |-> "month"]
      [] TotalDays # 0 -> [total |-> TotalDays, unit |-> "day"]
      [] TotalHours # 0 -> [total |-> TotalHours, unit |-> "hour"]
      [] TotalMinutes # 0 -> [total |-> TotalMinutes, unit |-> "minute"]
      [] TotalSeconds # 0 -> [total |-> TotalSeconds, unit |-> "second"]
      [] OTHER -> [total |-> 0, unit |-> "none"]

\* the one pair the claim describes was asked, and no other
C9_OnePairAsked ==
    /\ Len(FormatCalls) = 1
    /\ FormatCalls[1].unit = C9_FirstNonZero.unit
    /\ FormatCalls[1].count =
            IF ReferenceAfter THEN C9_FirstNonZero.total ELSE 0 - C9_FirstNonZero.total

\* the claim as stated, for every call with format 'relative' that had its
\* formatter constructed
C9_Original ==
    (Finished /\ options.format = "relative" /\ result.kind # "throw") => C9_OnePairAsked

(* C9 as amended: with format 'relative' the formatter is asked for that   *)
(* one pair when some total from years to seconds is non-zero and the      *)
(* formatter accepts the locale; when every total is zero, or the          *)
(* formatter rejects the locale, it is asked for no pair at all.           *)
C9_RelativePair ==
    (Finished /\ options.format = "relative") =>
        IF TotalSeconds # 0 /\ LocaleOf(options) \in WellFormedLocales
        THEN /\ C9_OnePairAsked
             /\ result.kind = "string"
             /\ result.str.count = FormatCalls[1].count
             /\ result.str.unit = FormatCalls[1].unit
        ELSE FormatCalls = <<>>

\* 11 months ahead: the pair (+11, month)
C9_Witness ==
    /\ Finished /\ options.format = "relative"
    /\ ReferenceAfter
    /\ Len(FormatCalls) = 1
    /\ FormatCalls[1].unit = "month" /\ FormatCalls[1].count = 11

(* C10: with format 'relative', when the totals of years, months, days,    *)
(* hours, minutes and seconds are all zero (M below 1000 ms, reference     *)
(* before, at or after the observation), the result is the literal string  *)
(* "now" for every locale, and no count is passed to the formatter.        *)
C10_NowForEveryLocale ==
    (pc = "done" /\ ~ReferenceInvalid /\ options.format = "relative" /\ TotalSeconds = 0) =>
        /\ result.kind = "string"
        /\ result.str.text = "now"
        /\ FormatCalls = <<>>

(* C11: when the reference equals the observation instant, every           *)
(* single-unit format returns 0 and every numeric component of the         *)
(* breakdown is 0.                                                         *)
C11_ZeroDelta ==
    (Finished /\ startDate.t = now.t) =>
        /\ options.format = "milliseconds" => (result.kind = "milliseconds" /\ result.big = [s |-> 0, ms |-> 0])
        /\ options.format \in SingleUnitFormats \ {"milliseconds"} => (result.kind = "number" /\ result.n = 0)
        /\ options.format \in {"object", "bogus", Undefined} =>
                /\ result.kind = "object"
                /\ result.obj.years = 0 /\ result.obj.months = 0 /\ result.obj.days = 0
                /\ result.obj.hours = 0 /\ result.obj.minutes = 0 /\ result.obj.seconds = 0
                /\ result.obj.milliseconds = 0

\* the reference one millisecond ahead of the base, the clock read after it
\* advanced by that millisecond
C11_Witness ==
    /\ Finished /\ startDate.t = now.t /\ ticks = 1 /\ now = clock
    /\ options.format = "days" /\ result.kind = "number" /\ result.n = 0

(* C12: for a valid reference, a call with options omitted, format         *)
(* omitted, format 'object' or an unrecognized format string returns the   *)
(* same breakdown and raises no error.                                     *)
C12_DefaultBreakdown ==
    (Finished /\ options.format \in {Undefined, "object", "bogus"}) =>
        /\ result.kind = "object"
        /\ result = Switch(Locals(startDate, now), startDate, now, NoOptions).result
        /\ result.obj.asOf = now
        /\ rtfLog = <<>>

\* an unrecognized format next to a locale the formatter rejects
C12_Witness ==
    /\ Finished /\ options.format = "bogus" /\ options.locale = "en_US"
    /\ result.kind = "object" /\ result.obj.years = 1 /\ result.obj.months = 11

(* C13: for the same reference and observation the single-unit formats     *)
(* agree on every adjacent pair: seconds = milliseconds div 1000, minutes  *)
(* = seconds div 60, hours = minutes div 60, days = hours div 24, months = *)
(* days div 30, years = months div 12.                                     *)
C13_AdjacentUnits ==
    (Finished /\ options.format \in SingleUnitFormats) =>
        /\ result = ReturnedFor(options.format)
        /\ ReturnedFor("seconds").n = ReturnedFor("milliseconds").big.s
        /\ ReturnedFor("milliseconds").big.ms \in 0..999
        /\ ReturnedFor("minutes").n = ReturnedFor("seconds").n \div 60
        /\ ReturnedFor("hours").n = ReturnedFor("minutes").n \div 60
        /\ ReturnedFor("days").n = ReturnedFor("hours").n \div 24
        /\ ReturnedFor("months").n = ReturnedFor("days").n \div 30
        /\ ReturnedFor("years").n = ReturnedFor("months").n \div 12

\* 719 days: 23 months, 1 year
C13_Witness ==
    /\ Finished /\ options.format = "years" /\ result.n = 1
    /\ ReturnedFor("days").n = 719
    /\ ReturnedFor("months").n = 23

(* C14: once the reference is a valid instant the call always returns a    *)
(* value and never fails, for every format and every locale string; format *)
(* 'relative' returns a string even when the locale is invalid for the     *)
(* formatter.                                                              *)
C14_NeverFails ==
    Finished =>
        /\ result.kind \notin {"none", "throw"}
        /\ options.format = "relative" => result.kind = "string"

(* C16: a string reference and a Date reference that denote the same       *)
(* instant, whatever zone offset the string is written with, give the same *)
(* totals and the same breakdown for the same observation and options.     *)
C16_DenotedInstant == [s |-> date.wall.s - date.offset, ms |-> date.wall.ms]

C16_StringLikeDate ==
    (Finished /\ date.type = "string") =>
        LET sd == StartDateOf(DateObject(Time(C16_DenotedInstant)))
        IN  result = Switch(Locals(sd, now), sd, now, options).result

\* a string written at +09:00
C16_Witness ==
    /\ Finished /\ date.type = "string" /\ date.offset = 32400
    /\ result.kind = "object" /\ result.obj.months = 11 /\ result.obj.hours = 23

(* C19: a call changes neither the date nor the options passed in, reads   *)
(* the host clock at most once (once when it returns a value), and the     *)
(* breakdown's date field is the reference instant as supplied.            *)
C19_SuppliedInstant ==
    IF date.type = "string"
    THEN [nan |-> FALSE, t |-> [s |-> date.wall.s - date.offset, ms |-> date.wall.ms]]
    ELSE date.time

C19_NoSideEffect ==
    /\ [][date' = date /\ options' = options]_vars
    /\ [](clockReads <= 1)
    /\ []((Finished /\ result.kind # "throw") => clockReads = 1)
    /\ []((Finished /\ result.kind = "object") => result.obj.date = C19_SuppliedInstant)

\* a breakdown returned for a Date argument after the clock advanced
C19_Witness ==
    /\ Finished /\ date.type = "Date" /\ result.kind = "object"
    /\ clockReads = 1 /\ ticks = 1
    /\ result.obj.date = date.time /\ result.obj.asOf # result.obj.date

(* C15: the ESM build (package.json "module") returns what the CommonJS    *)
(* build (package.json "main") returns for the same reference, observation *)
(* and options, for past, equal and future references and every format.    *)
C15_CjsOutcome ==
    IF IsInvalid(StartDateOf(date))
    THEN Throw(InvalidDateError)
    ELSE Switch(Locals(StartDateOf(date), now), StartDateOf(date), now, options).result

C15_SameResult == pc = "done" => result = C15_CjsOutcome

(* C17: a numeric Unix timestamp (milliseconds since the epoch) passed as  *)
(* `date` is accepted: the call returns what it returns for the Date       *)
(* object of that instant and raises no error.                             *)
C17_TimestampAccepted ==
    (pc = "done" /\ date.type = "number") =>
        /\ result.kind # "throw"
        /\ result = Switch(Locals(date.time, now), date.time, now, options).result

(* C18: with the observation 2025-05-01T00:00:00Z and the reference        *)
(* 2020-01-01T00:00:00Z the default object result has years = 5, months =  *)
(* 4 and days, hours, minutes, seconds and milliseconds = 0.               *)
C18_ReadmeExample ==
    (/\ pc = "done"
     /\ date.type \in {"string", "Date"}
     /\ startDate.t = [s |-> 1577836800, ms |-> 0]
     /\ now.t = [s |-> 1746057600, ms |-> 0]
     /\ options.format \in {Undefined, "object"}) =>
        /\ result.kind = "object"
        /\ result.obj.years = 5 /\ result.obj.months = 4 /\ result.obj.days = 0
        /\ result.obj.hours = 0 /\ result.obj.minutes = 0 /\ result.obj.seconds = 0
        /\ result.obj.milliseconds = 0

\* the second in which the clock was read: now is that second, moved by the
\* zone's distance from the host
ObservationSecond == now.t.s - ZoneAhead(options.timeZone)

\* the guard of the variant compares with its own now: a reference after
\* now is rejected unless allowFuture is true
C20_RejectedAfterAsOf ==
    (/\ ~ReferenceInvalid
     /\ pc = "done" /\ ~now.nan
     /\ ReferenceAfter
     /\ options.allowFuture \in {Undefined, "false"}) =>
        result = Throw(FutureNotAllowedError)

(* C20: in the variant with the allowFuture option, a call whose reference *)
(* lies after the observation instant (here: in a later second than the    *)
(* one the clock was read in) and whose allowFuture is false or omitted    *)
(* fails with 'Future dates are not allowed unless allowFuture is set to   *)
(* true.' and returns no value, for every format.                          *)
C20_FutureRejected ==
    (/\ ~ReferenceInvalid
     /\ pc = "done" /\ ~now.nan
     /\ startDate.t.s > ObservationSecond
     /\ options.allowFuture \in {Undefined, "false"}) =>
        /\ result.kind = "throw"
        /\ result.error = "Error: Future dates are not allowed unless allowFuture is set to true."

\* the outcome of a finished call, field by field, from the value of `now`
\* alone
C21_FromOneReading ==
    CASE result.kind = "object" ->
            /\ result.obj.asOf = now
            /\ result.obj.years = IF ReferenceAfter THEN 0 ELSE TotalYears
            /\ result.obj.months = IF ReferenceAfter THEN TotalDays \div 30 ELSE TotalMonths % 12
            /\ result.obj.days = TotalDays % 30
            /\ result.obj.hours = TotalHours % 24
            /\ result.obj.minutes = TotalMinutes % 60
            /\ result.obj.seconds = TotalSeconds % 60
            /\ result.obj.milliseconds = Magnitude.ms
      [] result.kind = "milliseconds" -> result.big = Magnitude
      [] result.kind = "number" ->
            result.n = CASE options.format = "seconds" -> TotalSeconds
                         [] options.format = "minutes" -> TotalMinutes
                         [] options.format = "hours" -> TotalHours
                         [] options.format = "days" -> TotalDays
                         [] options.format = "months" -> TotalMonths
                         [] OTHER -> TotalYears
      [] result.kind = "string" ->
            IF TotalSeconds = 0
            THEN result.str.text = "now"
            ELSE /\ result.str.unit = C9_FirstNonZero.unit
                 /\ result.str.count =
                        IF ReferenceAfter THEN C9_FirstNonZero.total ELSE 0 - C9_FirstNonZero.total
      [] OTHER -> result.kind = "throw"

\* C21 as stated: every finished call has read the clock exactly once
C21_Original == pc = "done" => (clockReads = 1 /\ C21_FromOneReading)

(* C21 as amended: a call whose reference is valid reads the clock exactly *)
(* once (a call that fails validation reads it not at all); `now` is       *)
(* assigned at that reading and never again, and every total, every        *)
(* remainder, the future flag and the result's asOf are derived from it,   *)
(* however the clock advances during the call.                             *)
C21_SingleReading ==
    /\ [][\/ clockReads' = clockReads /\ now' = now
          \/ clockReads = 0 /\ clockReads' = 1 /\ now' = clock]_vars
    /\ [](pc = "done" => clockReads = IF ReferenceInvalid THEN 0 ELSE 1)
    /\ [](Finished => C21_FromOneReading)

\* a breakdown for a future reference, returned after the clock moved on
\* from the reading
C21_Witness ==
    /\ Finished /\ result.kind = "object" /\ ReferenceAfter
    /\ clockReads = 1 /\ ticks = 1
    /\ result.obj.asOf = now /\ now # clock
    /\ result.obj.months = 23

(* C22: validation precedes everything else: when the reference is invalid *)
(* the error is raised before the clock is read, before the options are    *)
(* read and before the formatter is constructed; the failing call has      *)
(* performed zero clock reads, and its error is the same for every         *)
(* options.                                                                *)
C22_ValidationFirst ==
    ReferenceInvalid =>
        /\ pc \in {"start", "done"}
        /\ clockReads = 0
        /\ now = NaNTime
        /\ rtfLog = <<>>
        /\ pc = "start" => result = NoResult
        /\ pc = "done" => result = Throw("Error: Invalid date input")

\* 'not-a-date' with a locale the formatter would reject, failed while the
\* clock advanced: no clock read, no formatter
C22_Witness ==
    /\ pc = "done" /\ ticks = 1
    /\ date.type = "string" /\ ~date.parseable
    /\ options.format = "relative" /\ options.locale = "en_US"
    /\ clockReads = 0 /\ rtfLog = <<>>
    /\ result.error = "Error: Invalid date input"

(* C25: for every valid reference, past or future, the breakdown of the    *)
(* object format re-composes to the absolute delta:                        *)
(* ((((years*12 + months)*30 + days)*24 + hours)*60 + minutes)*60*1000     *)
(* + seconds*1000 + milliseconds = M (stated on the seconds and the        *)
(* milliseconds of M).                                                     *)
C25_Recomposes ==
    (Finished /\ result.kind = "object") =>
        /\ ((((result.obj.years * 12 + result.obj.months) * 30 + result.obj.days) * 24
                + result.obj.hours) * 60 + result.obj.minutes) * 60 + result.obj.seconds
            = Magnitude.s
        /\ result.obj.milliseconds = Magnitude.ms

\* a future reference, every component below years at the top of its range
C25_Witness ==
    /\ Finished /\ result.kind = "object" /\ ReferenceAfter
    /\ result.obj.years = 0 /\ result.obj.months = 23 /\ result.obj.days = 29
    /\ result.obj.hours = 23 /\ result.obj.minutes = 59 /\ result.obj.seconds = 59
    /\ result.obj.milliseconds = 999

(* C26: the successive floor divisions lose nothing against one direct     *)
(* division of M: minutes = floor(M / 60000), hours = floor(M / 3600000),  *)
(* days = floor(M / 86400000), months = floor(M / 2592000000), years =     *)
(* floor(M / 31104000000) (each divisor a multiple of 1000, so the         *)
(* quotient is that of the seconds of M by the divisor / 1000).            *)
C26_DirectDivision ==
    (Finished /\ options.format \in SingleUnitFormats) =>
        /\ options.format = "minutes" => result.n = Magnitude.s \div 60
        /\ options.format = "hours" => result.n = Magnitude.s \div 3600
        /\ options.format = "days" => result.n = Magnitude.s \div 86400
        /\ options.format = "months" => result.n = Magnitude.s \div 2592000
        /\ options.format = "years" => result.n = Magnitude.s \div 31104000

\* one millisecond short of two years of 360 days
C26_Witness ==
    /\ Finished /\ options.format = "years"
    /\ Magnitude = [s |-> 62207999, ms |-> 999]
    /\ result.n = 1
    /\ ReturnedFor("months").n = 23

\* a result of a single-unit format as a millisecond-style pair, to compare
C27_Value(res) == IF res.kind = "milliseconds" THEN res.big ELSE [s |-> res.n, ms |-> 0]

\* how much farther from the observation the compared references lie
C27_Increments ==
    {[s |-> 0, ms |-> 1], [s |-> 1, ms |-> 0], [s |-> 3599, ms |-> 999], [s |-> 2592000, ms |-> 0]}

\* the reference moved away from the observation by inc, on its own side
C27_Farther(inc) ==
    IF ReferenceAfter
    THEN [nan |-> FALSE,
          t |-> [s |-> startDate.t.s + inc.s + ((startDate.t.ms + inc.ms) \div 1000),
                 ms |-> (startDate.t.ms + inc.ms) % 1000]]
    ELSE [nan |-> FALSE,
          t |-> IF startDate.t.ms >= inc.ms
                THEN [s |-> startDate.t.s - inc.s, ms |-> startDate.t.ms - inc.ms]
                ELSE [s |-> startDate.t.s - inc.s - 1, ms |-> startDate.t.ms + 1000 - inc.ms]]

\* the unit next finer than that of a single-unit format
C27_NextFiner(fmt) ==
    CASE fmt = "years" -> "months"
      [] fmt = "months" -> "days"
      [] fmt = "days" -> "hours"
      [] fmt = "hours" -> "minutes"
      [] fmt = "minutes" -> "seconds"
      [] OTHER -> "milliseconds"

(* C27: totals are monotone and ordered: for a fixed observation a larger  *)
(* absolute delta never gives a smaller result for a single-unit format,   *)
(* and for every reference years <= months <= days <= hours <= minutes <=  *)
(* seconds <= milliseconds among the totals (each total against the next   *)
(* finer one, the seconds against the seconds of the milliseconds).        *)
C27_MonotoneOrdered ==
    (Finished /\ options.format \in SingleUnitFormats) =>
        LET a == C27_Value(result)
        IN  /\ options.format # "milliseconds" =>
                  LET b == C27_Value(ReturnedFor(C27_NextFiner(options.format)))
                  IN  a.s <= b.s
            /\ \A inc \in C27_Increments :
                  LET far == C27_Farther(inc)
                      b == C27_Value(Switch(Locals(far, now), far, now, options).result)
                  IN  a.s < b.s \/ (a.s = b.s /\ a.ms <= b.ms)

\* 59 minutes 59.999 seconds ahead: one more millisecond makes the hour
C27_Witness ==
    /\ Finished /\ options.format = "hours" /\ ReferenceAfter
    /\ result.n = 0
    /\ ReturnedFor("minutes").n = 59
    /\ Switch(Locals(C27_Farther([s |-> 0, ms |-> 1]), now),
              C27_Farther([s |-> 0, ms |-> 1]), now, options).result.n = 1

\* the magnitude of the count the formatter was asked for
C28_CountMagnitude ==
    IF FormatCalls[1].count < 0 THEN 0 - FormatCalls[1].count ELSE FormatCalls[1].count

(* C28: with format 'relative', whenever the chosen unit is not year, the  *)
(* magnitude of the count passed to the formatter is below the divisor of  *)
(* the next coarser unit (month <= 11, day <= 29, hour <= 23, minute <=    *)
(* 59, second <= 59), so it equals the remainder component the object      *)
(* format reports for a past reference.                                    *)
C28_CountIsRemainder ==
    (Finished /\ options.format = "relative" /\ Len(FormatCalls) = 1
        /\ FormatCalls[1].unit # "year") =>
        LET unit == FormatCalls[1].unit
            obj == ReturnedFor("object").obj
        IN  /\ unit \in {"month", "day", "hour", "minute", "second"}
            /\ unit = "month" =>
                  (C28_CountMagnitude <= 11 /\ C28_CountMagnitude = TotalMonths % 12)
            /\ unit = "day" =>
                  (C28_CountMagnitude <= 29 /\ C28_CountMagnitude = TotalDays % 30)
            /\ unit = "hour" =>
                  (C28_CountMagnitude <= 23 /\ C28_CountMagnitude = TotalHours % 24)
            /\ unit = "minute" =>
                  (C28_CountMagnitude <= 59 /\ C28_CountMagnitude = TotalMinutes % 60)
            /\ unit = "second" =>
                  (C28_CountMagnitude <= 59 /\ C28_CountMagnitude = TotalSeconds % 60)
            /\ ~ReferenceAfter =>
                  C28_CountMagnitude =
                      CASE unit = "month" -> obj.months
                        [] unit = "day" -> obj.days
                        [] unit = "hour" -> obj.hours
                        [] unit = "minute" -> obj.minutes
                        [] OTHER -> obj.seconds

\* 29 days 23:59:59.999 back: the pair (-29, day)
C28_Witness ==
    /\ Finished /\ options.format = "relative" /\ ReferenceBefore
    /\ Len(FormatCalls) = 1
    /\ FormatCalls[1].unit = "day" /\ FormatCalls[1].count = 0 - 29
    /\ ReturnedFor("object").obj.days = 29 /\ ReturnedFor("object").obj.hours = 23

(* C29: the locale option affects only format 'relative': for every other  *)
(* format (single-unit, 'object', omitted, unrecognized) the result is the *)
(* same for every locale value, including locales the formatter rejects,   *)
(* and no formatter is constructed.                                        *)
C29_LocaleOnlyRelative ==
    (Finished /\ options.format # "relative") =>
        /\ result.kind \in {"number", "milliseconds", "object"}
        /\ rtfLog = <<>>
        /\ \A l \in LocaleInputs :
              Switch(Locals(startDate, now), startDate, now, [options EXCEPT !.locale = l]).result
                  = result

\* 'days' with the locale the formatter rejects
C29_Witness ==
    /\ Finished /\ options.format = "days" /\ options.locale = "en_US"
    /\ result.kind = "number" /\ result.n = 29

\* the options of the call with the defaults filled in
C23_OwnFormat == IF options.format = Undefined THEN "object" ELSE options.format

C23_OwnLocale == IF options.locale = Undefined THEN "en" ELSE options.locale

\* the outcome of the finished call as its own reference, its own options
\* and its own observation instant determine it
C23_FromOwnInputs ==
    IF ReferenceInvalid
    THEN /\ result = Throw("Error: Invalid date input")
         /\ rtfLog = <<>>
         /\ clockReads = 0
    ELSE /\ startDate = C19_SuppliedInstant
         /\ clockReads = 1
         /\ IF C23_OwnFormat = "relative" /\ C23_OwnLocale \notin WellFormedLocales
            THEN result = Throw("RangeError: Incorrect locale information provided")
            ELSE /\ result.kind =
                        CASE C23_OwnFormat = "relative" -> "string"
                          [] C23_OwnFormat = "milliseconds" -> "milliseconds"
                          [] C23_OwnFormat \in SingleUnitFormats -> "number"
                          [] OTHER -> "object"
                 /\ C21_FromOneReading
                 /\ (result.kind = "string" /\ result.str.text # "now") =>
                        result.str.locale = ResolvedLocale(C23_OwnLocale)
                 /\ result.kind = "object" => result.obj.date = startDate

\* the call before had the same reference, options and observation instant
C23_SameInputsAsBefore ==
    /\ other.pc = "done"
    /\ other.options = options
    /\ \/ ReferenceInvalid /\ other.startDate.nan
       \/ ~ReferenceInvalid /\ other.startDate = startDate /\ other.now = now

(* C23: after any sequence of earlier calls, successful or failing, the    *)
(* result of a call depends only on its own reference, its own options and *)
(* the observation instant it captures: two calls with equal reference,    *)
(* options and observation instant return equal results, and a failed call *)
(* changes nothing for later calls.                                        *)
C23_CallsIndependent ==
    pc = "done" =>
        /\ C23_FromOwnInputs
        /\ C23_SameInputsAsBefore => result = other.result

\* a phrase in French, returned right after a call that failed on the
\* locale the formatter rejects
C23_Witness ==
    /\ pc = "done" /\ other.pc = "done"
    /\ other.result.kind = "throw" /\ other.rtfLog # <<>>
    /\ options.locale = "fr"
    /\ result.kind = "string" /\ result.str.locale = "fr" /\ result.str.unit = "month"

\* the same string reference, options and observation instant twice
C23_WitnessRepeated ==
    /\ pc = "done" /\ C23_SameInputsAsBefore
    /\ date.type = "string" /\ other.date.type = "Date"
    /\ result.kind = "string" /\ result = other.result

\* the instant an argument denotes
DenotedInstant(d) ==
    IF d.type = "string"
    THEN IF d.parseable
         THEN [nan |-> FALSE, t |-> [s |-> d.wall.s - d.offset, ms |-> d.wall.ms]]
         ELSE NaNTime
    ELSE d.time

\* what a call returns when run alone with the reference d, the options o
\* and the observation instant nw, and what it asks of the formatter
C24_Alone(d, o, nw) ==
    LET sd == DenotedInstant(d)
    IN  IF sd.nan
        THEN [result |-> Throw("Error: Invalid date input"), log |-> <<>>]
        ELSE Switch(Locals(sd, nw), sd, nw, o)

\* the single call of Spec ends as C24_Alone says
C24_AloneIsTheSingleCall ==
    pc = "done" =>
        /\ result = C24_Alone(date, options, now).result
        /\ rtfLog = C24_Alone(date, options, now).log

(* C24: when calls run interleaved step by step, each with its own         *)
(* reference and options, while the clock advances between steps, each     *)
(* returns exactly what it would return when run alone with the            *)
(* observation instant it captured; no step of one call changes a value of *)
(* the other call.                                                         *)
C24_EachAsAlone ==
    /\ [](pc = "done" =>
            /\ result = C24_Alone(date, options, now).result
            /\ rtfLog = C24_Alone(date, options, now).log)
    /\ [](other.pc = "done" =>
            /\ other.result = C24_Alone(other.date, other.options, other.now).result
            /\ other.rtfLog = C24_Alone(other.date, other.options, other.now).log)
    /\ [][ThisCall' = ThisCall \/ other' = other]_vars
    /\ [][now' # now => now' = clock]_vars
    /\ [][other.now' # other.now => other.now' = clock]_vars

\* both calls over, with different references and observation instants a
\* tick apart
C24_Witness ==
    /\ pc = "done" /\ other.pc = "done"
    /\ ~now.nan /\ ~other.now.nan /\ now # other.now
    /\ startDate # other.startDate
    /\ result.kind = "string" /\ result.str.unit = "month"
    /\ other.result.kind = "number" /\ other.result.n = 1

====
